---- MODULE Spec2Model ----
(***************************************************************************)
(* Model of code_navigator/core/parser.py: CodeParser builds a networkx    *)
(* DiGraph of a Python source tree (file / class / function nodes,         *)
(* defined_in / file_import / calls edges).                                *)
(*                                                                         *)
(* A relative path is the sequence of its segments (<<"a","util.py">> is   *)
(* "a/util.py"); a node identifier f"{rel_path}::{name}" is the path       *)
(* followed by the segments "::" and name.  Python dicts (self.files,      *)
(* ParsedFile.functions, graph.nodes, ...) are insertion-ordered and are   *)
(* modelled as sequences of [k, v] entries.                                *)
(***************************************************************************)
EXTENDS Integers, Sequences, FiniteSets, TLC

\* ---------------------------------------------------------------- bounds
MaxTotal == 2        \* top-level statements in the whole source tree
MaxTotalReuse == 1   \* the same, for the runs that call parse twice
MaxParses == 2       \* parse() calls on one CodeParser

\* ------------------------------------------------------- the source tree
PyPaths == {<<"main.py">>, <<"a", "util.py">>, <<"b", "util.py">>}
OtherPaths == {<<"README.md">>}
Entries == PyPaths \cup OtherPaths
Stems == {"main", "util", "README"}
NoName == "<None>"

PathIdx(p) == IF p = <<"main.py">> THEN 1 ELSE IF p = <<"a", "util.py">> THEN 2 ELSE 3

\* A call expression under a FunctionDef node is [where, func, id]: it stands
\* in the body or in the header (decorator list, parameter defaults), and its
\* callee is a bare Name (g()) or an Attribute (o.g()).
Call(where, func, id) == [where |-> where, func |-> func, id |-> id]

\* def X(): pass          def X(): X(); X()          def X(): Y()
\* @X()                   def Y(): o.X()
\* def Y(): pass
FunctionDefs ==
    { [kind |-> "FunctionDef", name |-> "X", sites |-> <<>>],
      [kind |-> "FunctionDef", name |-> "X",
       sites |-> <<Call("body", "Name", "X"), Call("body", "Name", "X")>>],
      [kind |-> "FunctionDef", name |-> "X", sites |-> <<Call("body", "Name", "Y")>>],
      [kind |-> "FunctionDef", name |-> "Y", sites |-> <<Call("header", "Name", "X")>>],
      [kind |-> "FunctionDef", name |-> "Y", sites |-> <<Call("body", "Attribute", "X")>>] }
\* class X: pass
ClassDefs == { [kind |-> "ClassDef", name |-> "X"] }
\* import util.sub          import os as util
Imports ==
    { [kind |-> "Import", module |-> <<"util", "sub">>, asname |-> NoName],
      [kind |-> "Import", module |-> <<"os">>, asname |-> "util"] }
\* from util import X       from . import X
ImportFroms ==
    { [kind |-> "ImportFrom", module |-> <<"util">>, name |-> "X", asname |-> NoName],
      [kind |-> "ImportFrom", module |-> <<>>, name |-> "X", asname |-> NoName] }
Stmts == FunctionDefs \cup ClassDefs \cup Imports \cup ImportFroms

RECURSIVE SeqsUpTo(_, _)
SeqsUpTo(S, n) ==
    IF n = 0 THEN {<<>>}
    ELSE LET shorter == SeqsUpTo(S, n - 1)
         IN  shorter \cup {Append(q, x) : q \in {r \in shorter : Len(r) = n - 1}, x \in S}

\* A file is [ok, body]: body is the sequence of top-level statements its
\* text holds, ok is FALSE when open() or ast.parse() raises on it (an
\* undecodable byte, a syntax error somewhere in the text).
NotSource == [ok |-> FALSE, body |-> <<>>]

RECURSIVE BodyOf(_, _)
BodyOf(t, p) ==
    IF t = <<>> THEN <<>>
    ELSE IF Head(t)[1] = p THEN <<Head(t)[2]>> \o BodyOf(Tail(t), p)
         ELSE BodyOf(Tail(t), p)

Placements(n) ==
    {t \in SeqsUpTo(PyPaths \X Stmts, n) :
        \A i \in 1..(Len(t) - 1) : PathIdx(t[i][1]) <= PathIdx(t[i + 1][1])}

\* the files of a tree that fail to read or parse: none, or one of them
Failures == {{}} \cup {{p} : p \in PyPaths}

\* the source trees with at most n top-level statements
Trees(n) ==
    { [p \in Entries |->
          IF p \notin PyPaths THEN NotSource
          ELSE [ok |-> p \notin bad, body |-> BodyOf(t, p)]] :
      t \in Placements(n), bad \in Failures }

\* ---------------------------------------------------- ordered dictionaries
DictKeys(d) == [i \in 1..Len(d) |-> d[i].k]
DictValues(d) == [i \in 1..Len(d) |-> d[i].v]
KeySet(d) == {d[i].k : i \in 1..Len(d)}
DictHas(d, key) == key \in KeySet(d)
DictGet(d, key) == d[CHOOSE i \in 1..Len(d) : d[i].k = key].v
\* d[key] = val : a new key goes last, an existing key keeps its position
DictPut(d, key, val) ==
    IF DictHas(d, key)
    THEN [i \in 1..Len(d) |-> IF d[i].k = key THEN [k |-> key, v |-> val] ELSE d[i]]
    ELSE Append(d, [k |-> key, v |-> val])

\* ------------------------------------------------------ networkx.DiGraph
EmptyGraph == [nodes |-> <<>>, edges |-> {}]
NoAttrs == [a \in {} |-> 0]
Update(old, new) ==
    [a \in DOMAIN old \cup DOMAIN new |-> IF a \in DOMAIN new THEN new[a] ELSE old[a]]

\* add_node(id, **attrs): creates the node or updates its attribute dict
add_node(G, id, attrs) ==
    [G EXCEPT !.nodes =
        DictPut(G.nodes, id,
                IF DictHas(G.nodes, id) THEN Update(DictGet(G.nodes, id), attrs) ELSE attrs)]

\* add_edge(u, v, label=l): creates missing end points, one edge per (u, v)
add_edge(G, u, v, l) ==
    LET G1 == IF DictHas(G.nodes, u) THEN G ELSE add_node(G, u, NoAttrs)
        G2 == IF DictHas(G1.nodes, v) THEN G1 ELSE add_node(G1, v, NoAttrs)
    IN  [G2 EXCEPT !.edges =
            {e \in G2.edges : ~(e.src = u /\ e.dst = v)}
              \cup {[src |-> u, dst |-> v, label |-> l]}]


\* ------------------------------------------------------------ identifiers
Basename(path) == path[Len(path)]
Dirname(path) == SubSeq(path, 1, Len(path) - 1)
\* fname.endswith(".py")
IsPy(fname) == \E m \in Stems : fname = m \o ".py"
\* f"{rel_path}::{name}"
NodeId(rel_path, name) == rel_path \o <<"::", name>>
IsDeclId(id) == \E i \in 1..Len(id) : id[i] = "::"
\* the part of an identifier before "::" (the whole identifier of a file)
FilePrefix(id) ==
    IF IsDeclId(id)
    THEN SubSeq(id, 1, (CHOOSE i \in 1..Len(id) : id[i] = "::") - 1)
    ELSE id

\* attrs.get("type")
TypeOf(attrs) == IF "type" \in DOMAIN attrs THEN attrs.type ELSE NoName

\* ------------------------------------------------- CodeParser._collect_files
\* os.walk is top-down: the files of a directory come before those of its
\* sub-directories, in the order the file system lists them
WalkNext(fsys, seen) ==
    LET left == DOMAIN fsys \ seen
        open == {p \in left : \E q \in seen : Len(q) > 1 /\ Dirname(q) = Dirname(p)}
    IN  IF \E p \in left : Len(p) = 1 THEN {p \in left : Len(p) = 1}
        ELSE IF open # {} THEN open
        ELSE left

\* the body of the loop for one *.py file: pre-create the file node
CollectOne(G, rel) == add_node(G, rel, [type |-> "file", display_name |-> rel])

\* --------------------------------------------------- CodeParser._index_files
EmptyRecord == [functions |-> <<>>, classes |-> <<>>, imports |-> <<>>, from_imports |-> <<>>]

\* one iteration of "for stmt in tree.body"; lineno is the statement's line
ScanStmt(acc, stmt, lineno) ==
    CASE stmt.kind = "FunctionDef" ->
           [acc EXCEPT !.functions =
               DictPut(@, stmt.name, [name |-> stmt.name, sites |-> stmt.sites, lineno |-> lineno])]
      [] stmt.kind = "ClassDef" ->
           [acc EXCEPT !.classes =
               DictPut(@, stmt.name, [name |-> stmt.name, lineno |-> lineno])]
      [] stmt.kind = "Import" ->
           LET mod == Head(stmt.module)
               asname == IF stmt.asname # NoName THEN stmt.asname ELSE mod
           IN  [acc EXCEPT !.imports = DictPut(@, asname, mod)]
      [] stmt.kind = "ImportFrom" /\ stmt.module # <<>> ->
           LET mod == Head(stmt.module)
               asname == IF stmt.asname # NoName THEN stmt.asname ELSE stmt.name
           IN  [acc EXCEPT !.from_imports = DictPut(@, asname, mod)]
      [] OTHER -> acc

RECURSIVE ScanBody(_, _, _)
ScanBody(body, i, acc) ==
    IF i > Len(body) THEN acc ELSE ScanBody(body, i + 1, ScanStmt(acc, body[i], i))

ParsedFile(rel_path, body) == [path |-> rel_path] @@ ScanBody(body, 1, EmptyRecord)

\* open() + ast.parse() succeed
Parses(fsys, rel_path) == rel_path \in DOMAIN fsys /\ fsys[rel_path].ok

\* IndexOne without the try/except around open() and ast.parse()
IndexOne_NoExcept(fsys, F, rel_path) ==
    IF rel_path \in DOMAIN fsys
    THEN DictPut(F, rel_path, ParsedFile(rel_path, fsys[rel_path].body))
    ELSE F

\* IndexOne that takes a file for already indexed when a record with the
\* same basename exists
IndexOne_ByBasename(fsys, F, rel_path) ==
    IF Parses(fsys, rel_path) /\ ~\E q \in KeySet(F) : q # rel_path /\ Basename(q) = Basename(rel_path)
    THEN DictPut(F, rel_path, ParsedFile(rel_path, fsys[rel_path].body))
    ELSE F

\* the body of the loop for one file node
IndexOne(fsys, F, rel_path) ==
    IF Parses(fsys, rel_path)
    THEN DictPut(F, rel_path, ParsedFile(rel_path, fsys[rel_path].body))
    ELSE F

\* -------------------------------------------- CodeParser._add_nodes_and_edges
Max(a, b) == IF a >= b THEN a ELSE b

\* AddClassNode without the add_edge call
AddClassNode_NoEdge(G, rel_path, cname, cnode) ==
    add_node(G, NodeId(rel_path, cname),
             [type |-> "class", display_name |-> cname, file |-> rel_path,
              lineno |-> cnode.lineno, end_lineno |-> cnode.lineno,
              loc |-> 1, doc |-> ""])

AddClassNode(G, rel_path, cname, cnode) ==
    LET cid == NodeId(rel_path, cname)
        start == cnode.lineno
        end == cnode.lineno
    IN  add_edge(add_node(G, cid,
                          [type |-> "class", display_name |-> cname, file |-> rel_path,
                           lineno |-> start, end_lineno |-> end,
                           loc |-> Max(0, end - start + 1), doc |-> ""]),
                 rel_path, cid, "defined_in")

\* AddFunctionNode with the end points of defined_in swapped
AddFunctionNode_Reversed(G, rel_path, fname, fnode) ==
    LET fid == NodeId(rel_path, fname)
    IN  add_edge(add_node(G, fid,
                          [type |-> "function", display_name |-> fname \o "()", file |-> rel_path,
                           lineno |-> fnode.lineno, end_lineno |-> fnode.lineno,
                           loc |-> 1, params |-> <<>>, doc |-> ""]),
                 fid, rel_path, "defined_in")

AddFunctionNode(G, rel_path, fname, fnode) ==
    LET fid == NodeId(rel_path, fname)
        start == fnode.lineno
        end == fnode.lineno
    IN  add_edge(add_node(G, fid,
                          [type |-> "function", display_name |-> fname \o "()", file |-> rel_path,
                           lineno |-> start, end_lineno |-> end,
                           loc |-> Max(0, end - start + 1), params |-> <<>>, doc |-> ""]),
                 rel_path, fid, "defined_in")

\* list(pfile.imports.values()) + list(pfile.from_imports.values())
ModuleNames(pfile) == DictValues(pfile.imports) \o DictValues(pfile.from_imports)

\* the keys of `paths` whose basename is candidate, in iteration order
Matches(paths, candidate) == SelectSeq(paths, LAMBDA p : Basename(p) = candidate)

\* the inner loop over self.files.keys(), left by break at the first match
AddFileImport(G, F, rel_path, module_name) ==
    LET found == Matches(DictKeys(F), module_name \o ".py")
    IN  IF found # <<>> THEN add_edge(G, rel_path, Head(found), "file_import") ELSE G

\* --------------------------------------------- CodeParser._resolve_calls_basic
\* ast.walk(fnode) visits every node under the FunctionDef: decorators and
\* defaults as well as the body
\* WalkCalls without the test "target_name in local_functions"
RECURSIVE WalkCalls_AnyName(_, _, _, _, _)
WalkCalls_AnyName(G, rel_path, local_functions, caller_id, sites) ==
    IF sites = <<>> THEN G
    ELSE LET sub == Head(sites)
             G1 == IF sub.func = "Name"
                   THEN add_edge(G, caller_id, NodeId(rel_path, sub.id), "calls")
                   ELSE G
         IN  WalkCalls_AnyName(G1, rel_path, local_functions, caller_id, Tail(sites))

RECURSIVE WalkCalls(_, _, _, _, _)
WalkCalls(G, rel_path, local_functions, caller_id, sites) ==
    IF sites = <<>> THEN G
    ELSE LET sub == Head(sites)
             G1 == IF sub.func = "Name" /\ DictHas(local_functions, sub.id)
                   THEN add_edge(G, caller_id, NodeId(rel_path, sub.id), "calls")
                   ELSE G
         IN  WalkCalls(G1, rel_path, local_functions, caller_id, Tail(sites))

ResolveCallsOf(G, rel_path, local_functions, fname, fnode) ==
    WalkCalls(G, rel_path, local_functions, NodeId(rel_path, fname), fnode.sites)

\* ------------------------------------------------------------- the parser
VARIABLES
    fs,       \* the source tree: directory entry -> [ok, body]
    walked,   \* entries os.walk has yielded in the running _collect_files
    graph,    \* self.graph
    files,    \* self.files : rel_path -> ParsedFile
    pc,       \* position of the running parse(): [phase, f, j]
    ncalls    \* parse() calls started on this CodeParser

vars == <<fs, walked, graph, files, pc, ncalls>>

At(phase, f, j) == [phase |-> phase, f |-> f, j |-> j]

\* Moves a loop position past exhausted loops and skipped iterations to the
\* next iteration that does something; "done" is `return self.graph`.
RECURSIVE Norm(_, _, _)
Norm(c, G, F) ==
    CASE c.phase = "index" ->
           IF c.f > Len(G.nodes) THEN Norm(At("classes", 1, 1), G, F)
           ELSE IF TypeOf(G.nodes[c.f].v) # "file" THEN Norm(At("index", c.f + 1, 1), G, F)
           ELSE c
      [] c.phase = "classes" ->
           IF c.f > Len(F) THEN Norm(At("calls", 1, 1), G, F)
           ELSE IF c.j > Len(F[c.f].v.classes) THEN Norm(At("functions", c.f, 1), G, F)
           ELSE c
      [] c.phase = "functions" ->
           IF c.j > Len(F[c.f].v.functions) THEN Norm(At("imports", c.f, 1), G, F)
           ELSE c
      [] c.phase = "imports" ->
           IF c.j > Len(ModuleNames(F[c.f].v)) THEN Norm(At("classes", c.f + 1, 1), G, F)
           ELSE c
      [] c.phase = "calls" ->
           IF c.f > Len(F) THEN At("done", 1, 1)
           ELSE IF c.j > Len(F[c.f].v.functions) THEN Norm(At("calls", c.f + 1, 1), G, F)
           ELSE c
      [] OTHER -> c

\* One iteration of the loop the position c is in, on graph G and records F.
IndexStep(fsys, G, F, c) ==
    LET F1 == IndexOne(fsys, F, G.nodes[c.f].k)
    IN  [graph |-> G, files |-> F1, pc |-> Norm(At("index", c.f + 1, 1), G, F1)]

ClassStep(G, F, c) ==
    LET pfile == F[c.f].v
        G1 == AddClassNode(G, F[c.f].k, pfile.classes[c.j].k, pfile.classes[c.j].v)
    IN  [graph |-> G1, files |-> F, pc |-> Norm(At("classes", c.f, c.j + 1), G1, F)]

FunctionStep(G, F, c) ==
    LET pfile == F[c.f].v
        G1 == AddFunctionNode(G, F[c.f].k, pfile.functions[c.j].k, pfile.functions[c.j].v)
    IN  [graph |-> G1, files |-> F, pc |-> Norm(At("functions", c.f, c.j + 1), G1, F)]

ImportStep(G, F, c) ==
    LET G1 == AddFileImport(G, F, F[c.f].k, ModuleNames(F[c.f].v)[c.j])
    IN  [graph |-> G1, files |-> F, pc |-> Norm(At("imports", c.f, c.j + 1), G1, F)]

CallsStep(G, F, c) ==
    LET pfile == F[c.f].v
        G1 == ResolveCallsOf(G, F[c.f].k, pfile.functions,
                             pfile.functions[c.j].k, pfile.functions[c.j].v)
    IN  [graph |-> G1, files |-> F, pc |-> Norm(At("calls", c.f, c.j + 1), G1, F)]

Apply(s) ==
    /\ graph' = s.graph
    /\ files' = s.files
    /\ pc' = s.pc

TypeOK ==
    /\ DOMAIN fs \subseteq Entries
    /\ walked \subseteq Entries
    /\ pc.phase \in {"idle", "collect", "index", "classes", "functions", "imports",
                     "calls", "done", "edited"}
    /\ ncalls \in 0..MaxParses

InitOf(n) ==
    /\ fs \in Trees(n)
    /\ walked = {}
    /\ graph = EmptyGraph
    /\ files = <<>>
    /\ pc = At("idle", 1, 1)
    /\ ncalls = 0

Init == InitOf(MaxTotal)

\* parse() is entered: _collect_files starts its walk
Enter ==
    /\ ncalls < MaxParses
    /\ ncalls' = ncalls + 1
    /\ walked' = {}
    /\ pc' = IF DOMAIN fs = {} THEN Norm(At("index", 1, 1), graph, files)
             ELSE At("collect", 1, 1)
    /\ UNCHANGED <<fs, graph, files>>

Parse ==
    /\ pc.phase = "idle"
    /\ Enter

\* _collect_files, the next directory entry
Collect(p) ==
    /\ pc.phase = "collect"
    /\ p \in WalkNext(fs, walked)
    /\ walked' = walked \cup {p}
    /\ graph' = IF IsPy(Basename(p)) THEN CollectOne(graph, p) ELSE graph
    /\ pc' = IF walked' = DOMAIN fs THEN Norm(At("index", 1, 1), graph', files)
             ELSE pc
    /\ UNCHANGED <<fs, files, ncalls>>

CollectFile == \E p \in DOMAIN fs : IsPy(Basename(p)) /\ Collect(p)

SkipEntry == \E p \in DOMAIN fs : ~IsPy(Basename(p)) /\ Collect(p)

IndexFile ==
    /\ pc.phase = "index"
    /\ Apply(IndexStep(fs, graph, files, pc))
    /\ UNCHANGED <<fs, walked, ncalls>>

AddClass ==
    /\ pc.phase = "classes"
    /\ Apply(ClassStep(graph, files, pc))
    /\ UNCHANGED <<fs, walked, ncalls>>

AddFunction ==
    /\ pc.phase = "functions"
    /\ Apply(FunctionStep(graph, files, pc))
    /\ UNCHANGED <<fs, walked, ncalls>>

AddImport ==
    /\ pc.phase = "imports"
    /\ Apply(ImportStep(graph, files, pc))
    /\ UNCHANGED <<fs, walked, ncalls>>

ResolveCalls ==
    /\ pc.phase = "calls"
    /\ Apply(CallsStep(graph, files, pc))
    /\ UNCHANGED <<fs, walked, ncalls>>

Next ==
    \/ Parse
    \/ CollectFile
    \/ SkipEntry
    \/ IndexFile
    \/ AddClass
    \/ AddFunction
    \/ AddImport
    \/ ResolveCalls

Spec == Init /\ [][Next]_vars

\* ------------------------------------------------- parse() between calls
\* The tree changes while no parse() is running: a file is deleted ...
DeleteFile ==
    /\ pc.phase = "done"
    /\ ncalls < MaxParses
    /\ \E p \in DOMAIN fs \cap PyPaths :
          fs' = [q \in DOMAIN fs \ {p} |-> fs[q]]
    /\ pc' = [pc EXCEPT !.phase = "edited"]
    /\ UNCHANGED <<walked, graph, files, ncalls>>

\* ... or a file is created or rewritten
WriteFile ==
    /\ pc.phase = "done"
    /\ ncalls < MaxParses
    /\ \E p \in PyPaths, ok \in BOOLEAN, body \in SeqsUpTo(Stmts, MaxTotalReuse) :
          /\ p \in DOMAIN fs => fs[p] # [ok |-> ok, body |-> body]
          /\ fs' = [q \in DOMAIN fs \cup {p} |->
                       IF q = p THEN [ok |-> ok, body |-> body] ELSE fs[q]]
    /\ pc' = [pc EXCEPT !.phase = "edited"]
    /\ UNCHANGED <<walked, graph, files, ncalls>>

\* parse() is called again on the same CodeParser
ParseAgain ==
    /\ pc.phase \in {"done", "edited"}
    /\ Enter

NextReuse ==
    \/ Next
    \/ DeleteFile
    \/ WriteFile
    \/ ParseAgain

InitReuse == InitOf(MaxTotalReuse)

SpecReuse == InitReuse /\ [][NextReuse]_vars

\* ------------------------------------------------ parse() as a function
\* the orders in which os.walk can yield the entries of a tree
RECURSIVE WalksFrom(_, _)
WalksFrom(fsys, seen) ==
    IF seen = DOMAIN fsys THEN {<<>>}
    ELSE UNION {{<<p>> \o w : w \in WalksFrom(fsys, seen \cup {p})} : p \in WalkNext(fsys, seen)}

Walks(fsys) == WalksFrom(fsys, {})

RECURSIVE CollectAll(_, _)
CollectAll(G, w) ==
    IF w = <<>> THEN G
    ELSE CollectAll(IF IsPy(Basename(Head(w))) THEN CollectOne(G, Head(w)) ELSE G, Tail(w))

Step(fsys, s) ==
    CASE s.pc.phase = "index" -> IndexStep(fsys, s.graph, s.files, s.pc)
      [] s.pc.phase = "classes" -> ClassStep(s.graph, s.files, s.pc)
      [] s.pc.phase = "functions" -> FunctionStep(s.graph, s.files, s.pc)
      [] s.pc.phase = "imports" -> ImportStep(s.graph, s.files, s.pc)
      [] s.pc.phase = "calls" -> CallsStep(s.graph, s.files, s.pc)

RECURSIVE Run(_, _)
Run(fsys, s) == IF s.pc.phase = "done" THEN s ELSE Run(fsys, Step(fsys, s))

\* parse() of a CodeParser holding graph G0 and records F0, on the tree fsys
\* walked in the order w
ParseFrom(fsys, w, G0, F0) ==
    LET G1 == CollectAll(G0, w)
    IN  Run(fsys, [graph |-> G1, files |-> F0, pc |-> Norm(At("index", 1, 1), G1, F0)])

\* parse() of a newly constructed CodeParser
FreshParse(fsys, w) == ParseFrom(fsys, w, EmptyGraph, <<>>).graph

\* ------------------------------------------------------ reading the graph
Done == pc.phase = "done"
NodeIds(G) == KeySet(G.nodes)
Attrs(G, id) == DictGet(G.nodes, id)
\* the node set with its attributes, insertion order forgotten
NodeMap(G) == [id \in NodeIds(G) |-> Attrs(G, id)]
NodesOfType(G, t) == {id \in NodeIds(G) : TypeOf(Attrs(G, id)) = t}
DeclNodes(G) == NodesOfType(G, "class") \cup NodesOfType(G, "function")
Labelled(G, l) == {e \in G.edges : e.label = l}
\* the *.py files of the tree, and those of them that parse
Discovered == {p \in DOMAIN fs : IsPy(Basename(p))}
Parsed == {p \in Discovered : fs[p].ok}
Failed == Discovered \ Parsed
\* the top-level "def" and "class" statements of a file's text
DeclStmts(p) == SelectSeq(fs[p].body, LAMBDA st : st.kind \in {"FunctionDef", "ClassDef"})
DeclNames(p) == {DeclStmts(p)[i].name : i \in 1..Len(DeclStmts(p))}
\* the file nodes in the order the graph iterates them
FileOrder(G) == SelectSeq(DictKeys(G.nodes), LAMBDA id : TypeOf(Attrs(G, id)) = "file")

\* ============================================================ properties

\* C1: in the graph parse returns, every class or function node has exactly
\* one incoming defined_in edge, and its source is the file node named by the
\* node's `file` attribute, which is also the identifier's part before "::".
C1_DefinedInComplete ==
    Done =>
      \A id \in DeclNodes(graph) :
         LET into == {e \in Labelled(graph, "defined_in") : e.dst = id}
         IN  /\ Cardinality(into) = 1
             /\ \A e \in into :
                   /\ e.src = Attrs(graph, id).file
                   /\ e.src = FilePrefix(id)
                   /\ e.src \in NodesOfType(graph, "file")

\* a returned graph with a class node and a function node, one of them in a
\* sub-directory
C1_Witness ==
    /\ Done
    /\ NodesOfType(graph, "class") # {}
    /\ NodesOfType(graph, "function") # {}
    /\ \E id \in DeclNodes(graph) : Len(FilePrefix(id)) > 1

\* C2: parse completes although files fail to parse; every discovered file
\* has a file node; a failed file has no class/function node and no outgoing
\* edge; the files that parse keep all their declarations.
C2_ParseFailureIsolated ==
    Done =>
      /\ \A p \in Discovered : p \in NodesOfType(graph, "file")
      /\ \A p \in Failed :
            /\ ~\E id \in DeclNodes(graph) : FilePrefix(id) = p
            /\ ~\E e \in graph.edges : FilePrefix(e.src) = p
      /\ \A p \in Parsed :
            {id \in DeclNodes(graph) : FilePrefix(id) = p} = {NodeId(p, n) : n \in DeclNames(p)}

\* a finished parse of a tree where a file whose text holds statements failed
\* and another file contributed a declaration
C2_Witness ==
    /\ Done
    /\ \E p \in Failed : fs[p].body # <<>>
    /\ \E q \in Parsed : DeclNames(q) # {}

\* C5: every calls edge joins two function nodes of the same file.
C5_CallsSameFile ==
    Done =>
      \A e \in Labelled(graph, "calls") :
         /\ e.src \in NodesOfType(graph, "function")
         /\ e.dst \in NodesOfType(graph, "function")
         /\ FilePrefix(e.src) = FilePrefix(e.dst)

\* a calls edge whose callee name is also a function of another file
C5_Witness ==
    /\ Done
    /\ \E e \in Labelled(graph, "calls") :
          \E id \in NodesOfType(graph, "function") :
             /\ FilePrefix(id) # FilePrefix(e.dst)
             /\ id[Len(id)] = e.dst[Len(e.dst)]

\* C8 as stated: a parsed file has as many outgoing defined_in edges as it
\* has top-level class and function declarations, repeated names included.
C8_OnePerDeclaration ==
    Done =>
      \A p \in Parsed :
         Cardinality({e \in Labelled(graph, "defined_in") : e.src = p}) = Len(DeclStmts(p))

\* C8 amended: a parsed file has as many outgoing defined_in edges as there
\* are distinct names among its top-level class and function declarations.
C8_OnePerDeclaredName ==
    Done =>
      \A p \in Parsed :
         Cardinality({e \in Labelled(graph, "defined_in") : e.src = p})
           = Cardinality(DeclNames(p))

\* a parsed file that declares one name twice
C8_Witness ==
    /\ Done
    /\ \E p \in Parsed : Len(DeclStmts(p)) > Cardinality(DeclNames(p))

\* the root module names the import statements of a file's text name
ImportedModules(p) ==
    {Head(fs[p].body[i].module) :
        i \in {k \in 1..Len(fs[p].body) :
                  /\ fs[p].body[k].kind \in {"Import", "ImportFrom"}
                  /\ fs[p].body[k].module # <<>>}}
\* the functions a file's text defines at top level, a later "def" of a name
\* replacing an earlier one
FunctionNames(p) ==
    {fs[p].body[i].name : i \in {k \in 1..Len(fs[p].body) : fs[p].body[k].kind = "FunctionDef"}}
LastDef(p, f) ==
    LET at == {k \in 1..Len(fs[p].body) :
                  fs[p].body[k].kind = "FunctionDef" /\ fs[p].body[k].name = f}
    IN  fs[p].body[CHOOSE k \in at : \A m \in at : m <= k]
SameGraph(G, H) == NodeMap(G) = NodeMap(H) /\ G.edges = H.edges

\* C3 as stated: the node set and the edge set of the returned graph are the
\* same for every order in which the walk can discover the files.
C3_OrderIndependent ==
    Done => \A w \in Walks(fs) : SameGraph(FreshParse(fs, w), graph)

\* C3 amended: the node set and the defined_in and calls edges are the same
\* for every discovery order, and so is every file_import edge up to the
\* choice of its target among the parsed files that share the target's
\* basename.
C3_OrderIndependentUpToBasename ==
    Done =>
      \A w \in Walks(fs) :
         LET H == FreshParse(fs, w)
         IN  /\ NodeMap(H) = NodeMap(graph)
             /\ H.edges \ Labelled(H, "file_import")
                  = graph.edges \ Labelled(graph, "file_import")
             /\ {<<e.src, Basename(e.dst)>> : e \in Labelled(H, "file_import")}
                  = {<<e.src, Basename(e.dst)>> : e \in Labelled(graph, "file_import")}
             /\ \A e \in Labelled(H, "file_import") :
                   \/ e \in graph.edges
                   \/ \E q \in Parsed : q # e.dst /\ Basename(q) = Basename(e.dst)

\* a returned graph with a file_import edge to one of two parsed util.py files
\* that hold declarations
C3_Witness ==
    /\ Done
    /\ \E e \in Labelled(graph, "file_import") :
          \E q \in Parsed : q # e.dst /\ Basename(q) = Basename(e.dst)
    /\ \E id \in DeclNodes(graph) : Len(FilePrefix(id)) > 1

\* C4: a parsed file that imports util, when two other discovered files are
\* named util.py, has exactly one file_import edge to a file named util.py,
\* and its target is the first of them in the iteration order of the file set.
C4_ExactlyOneToFirst ==
    Done =>
      \A t \in Parsed :
         ( /\ "util" \in ImportedModules(t)
           /\ Cardinality({p \in Discovered \ {t} : Basename(p) = "util.py"}) >= 2 )
         => LET hits == {e \in Labelled(graph, "file_import") :
                            e.src = t /\ Basename(e.dst) = "util.py"}
            IN  /\ Cardinality(hits) = 1
                /\ \A e \in hits : e.dst = Head(Matches(FileOrder(graph), "util.py"))

\* C6: a node, once added, stays with the same attributes, and an edge, once
\* added, stays with the same label, in every later step of the build.
C6_WriteOnce ==
    [][ /\ \A id \in NodeIds(graph) :
              id \in NodeIds(graph') /\ Attrs(graph', id) = Attrs(graph, id)
        /\ graph.edges \subseteq graph'.edges ]_vars

\* C7: whatever parse calls and file changes came before, the graph a parse
\* returns is the graph a new CodeParser returns for the tree as it is now,
\* and no per-file record of a file that no longer parses is left.
C7_NoStateAcrossCalls ==
    Done =>
      /\ \E w \in Walks(fs) : SameGraph(graph, FreshParse(fs, w))
      /\ KeySet(files) \subseteq Parsed

\* C9: for a parsed file A and a root module m that A imports, if a
\* discovered file is named m.py (parsed or not) there is a file_import edge
\* from A to the first such file in file-set order, and if none is, A has no
\* file_import edge for m.
C9_ImportSearchesAllDiscovered ==
    Done =>
      \A a \in Parsed : \A m \in ImportedModules(a) :
         LET cands == Matches(FileOrder(graph), m \o ".py")
         IN  IF cands # <<>>
             THEN [src |-> a, dst |-> Head(cands), label |-> "file_import"] \in graph.edges
             ELSE ~\E e \in Labelled(graph, "file_import") :
                      e.src = a /\ Basename(e.dst) = m \o ".py"

\* C10: between two top-level functions f and g of a parsed file there is a
\* calls edge from f to g exactly when the body of f holds a call whose callee
\* is the bare name g.
C10_CallsIffBodyCall ==
    Done =>
      \A p \in Parsed : \A f \in FunctionNames(p) : \A g \in FunctionNames(p) :
         ([src |-> NodeId(p, f), dst |-> NodeId(p, g), label |-> "calls"] \in graph.edges)
           <=> (\E i \in 1..Len(LastDef(p, f).sites) :
                   LastDef(p, f).sites[i] = [where |-> "body", func |-> "Name", id |-> g])

====
